---- MODULE Spec2Model ----
(***************************************************************************)
(* Model of the BASIC-to-PRG converters of ultimate64-sid-player:          *)
(*   basic_tokenizer.py  : BASIC_TOKENS, tokenize_basic_line, basic_to_prg *)
(*   build_and_deploy.py : TOKENS, tokenize_line, basic_to_prg             *)
(* Characters are their code points (the files are read as latin-1, so an  *)
(* input character is 0..255); a string is a sequence of code points and a *)
(* bytearray is a sequence of 0..255.  Scan positions keep Python's        *)
(* 0-based numbering: content[i] of the source is content[i + 1] here.     *)
(***************************************************************************)
EXTENDS Integers, Sequences, FiniteSets, TLC

\* The longest program (number of input lines) drawn from ProgLines.
MaxLines == 3

\* Python string predicates on one latin-1 character.

\* str.isspace(), which is also what str.strip() removes and the regex \s matches.
IsSpace(c) == c \in {9, 10, 11, 12, 13, 28, 29, 30, 31, 32, 133, 160}

\* The regex \d: among the latin-1 characters only 0..9 are decimal digits.
IsDecimal(c) == c \in 48..57

\* str.isdigit(): the decimal digits and the superscripts 2, 3, 1.
IsDigit(c) == c \in (48..57) \cup {178, 179, 185}

\* str.isalnum() on a latin-1 character.
IsAlnum(c) ==
  \/ c \in 48..57
  \/ c \in 65..90
  \/ c \in 97..122
  \/ c \in {170, 178, 179, 181, 185, 186, 188, 189, 190}
  \/ c \in (192..214) \cup (216..246) \cup (248..255)

\* str.upper() of one character: a sequence, since the sharp s becomes SS
\* and two letters leave latin-1.
UpperChar(c) ==
  IF c \in 97..122 THEN <<c - 32>>
  ELSE IF c = 181 THEN <<924>>
  ELSE IF c = 223 THEN <<83, 83>>
  ELSE IF c \in (224..246) \cup (248..254) THEN <<c - 32>>
  ELSE IF c = 255 THEN <<376>>
  ELSE <<c>>

RECURSIVE Upper(_)
\* str.upper() of a string.
Upper(s) == IF s = <<>> THEN <<>> ELSE UpperChar(Head(s)) \o Upper(Tail(s))

\* A prefix test that compares only as far as the shorter string goes.
StartsWith_common_prefix(s, prefix) ==
  \A x \in 1..(IF Len(s) < Len(prefix) THEN Len(s) ELSE Len(prefix)) :
    s[x] = prefix[x]

\* str.startswith(prefix).
StartsWith(s, prefix) ==
  /\ Len(prefix) <= Len(s)
  /\ SubSeq(s, 1, Len(prefix)) = prefix

\* The slice s[i:] for a 0-based i.
SliceFrom(s, i) == SubSeq(s, i + 1, Len(s))

RECURSIVE LStrip(_)
LStrip(s) == IF s # <<>> /\ IsSpace(Head(s)) THEN LStrip(Tail(s)) ELSE s

RECURSIVE RStrip(_)
RStrip(s) ==
  IF s # <<>> /\ IsSpace(s[Len(s)]) THEN RStrip(SubSeq(s, 1, Len(s) - 1)) ELSE s

\* str.strip().
Strip(s) == RStrip(LStrip(s))

RECURSIVE RStripNewlines(_)
\* str.rstrip('\r\n').
RStripNewlines(s) ==
  IF s # <<>> /\ s[Len(s)] \in {10, 13}
  THEN RStripNewlines(SubSeq(s, 1, Len(s) - 1)) ELSE s

RECURSIVE DigitRun(_)
\* The number of leading characters the greedy (\d+) takes.
DigitRun(s) == IF s # <<>> /\ IsDecimal(Head(s)) THEN 1 + DigitRun(Tail(s)) ELSE 0

RECURSIVE SpaceRun(_)
\* The number of leading characters the greedy \s* or \s+ takes.
SpaceRun(s) == IF s # <<>> /\ IsSpace(Head(s)) THEN 1 + SpaceRun(Tail(s)) ELSE 0

RECURSIVE ParseInt(_)
\* int() of a string of decimal digits.
ParseInt(s) ==
  IF s = <<>> THEN 0
  ELSE 10 * ParseInt(SubSeq(s, 1, Len(s) - 1)) + (s[Len(s)] - 48)

\* A raw emission that keeps codes from 128 up.
RawCode_unmasked(c) == c

\* ord(char) if below 128, else ord('?').
RawCode(c) == IF c < 128 THEN c ELSE 63

\* A struct.pack that writes the high byte first.
PackH_high_first(n) == <<n \div 256, n % 256>>

\* struct.pack('<H', n) for n in 0..65535 (outside that range it raises).
PackH(n) == <<n % 256, n \div 256>>

\* Whether struct.pack('<H', n) raises struct.error.
PackHRaises(n) == n < 0 \/ n > 65535

\* basic_tokenizer.py: the keyword table, in the order the dict literal lists its keys.
BASIC_TOKENS ==
  <<
    [keyword |-> <<69, 78, 68>>, code |-> 128],   \* END -> 0x80
    [keyword |-> <<70, 79, 82>>, code |-> 129],   \* FOR -> 0x81
    [keyword |-> <<78, 69, 88, 84>>, code |-> 130],   \* NEXT -> 0x82
    [keyword |-> <<68, 65, 84, 65>>, code |-> 131],   \* DATA -> 0x83
    [keyword |-> <<73, 78, 80, 85, 84, 35>>, code |-> 132],   \* INPUT# -> 0x84
    [keyword |-> <<73, 78, 80, 85, 84>>, code |-> 133],   \* INPUT -> 0x85
    [keyword |-> <<68, 73, 77>>, code |-> 134],   \* DIM -> 0x86
    [keyword |-> <<82, 69, 65, 68>>, code |-> 135],   \* READ -> 0x87
    [keyword |-> <<76, 69, 84>>, code |-> 136],   \* LET -> 0x88
    [keyword |-> <<71, 79, 84, 79>>, code |-> 137],   \* GOTO -> 0x89
    [keyword |-> <<82, 85, 78>>, code |-> 138],   \* RUN -> 0x8A
    [keyword |-> <<73, 70>>, code |-> 139],   \* IF -> 0x8B
    [keyword |-> <<82, 69, 83, 84, 79, 82, 69>>, code |-> 140],   \* RESTORE -> 0x8C
    [keyword |-> <<71, 79, 83, 85, 66>>, code |-> 141],   \* GOSUB -> 0x8D
    [keyword |-> <<82, 69, 84, 85, 82, 78>>, code |-> 142],   \* RETURN -> 0x8E
    [keyword |-> <<82, 69, 77>>, code |-> 143],   \* REM -> 0x8F
    [keyword |-> <<83, 84, 79, 80>>, code |-> 144],   \* STOP -> 0x90
    [keyword |-> <<79, 78>>, code |-> 145],   \* ON -> 0x91
    [keyword |-> <<87, 65, 73, 84>>, code |-> 146],   \* WAIT -> 0x92
    [keyword |-> <<76, 79, 65, 68>>, code |-> 147],   \* LOAD -> 0x93
    [keyword |-> <<83, 65, 86, 69>>, code |-> 148],   \* SAVE -> 0x94
    [keyword |-> <<86, 69, 82, 73, 70, 89>>, code |-> 149],   \* VERIFY -> 0x95
    [keyword |-> <<68, 69, 70>>, code |-> 150],   \* DEF -> 0x96
    [keyword |-> <<80, 79, 75, 69>>, code |-> 151],   \* POKE -> 0x97
    [keyword |-> <<80, 82, 73, 78, 84, 35>>, code |-> 152],   \* PRINT# -> 0x98
    [keyword |-> <<80, 82, 73, 78, 84>>, code |-> 153],   \* PRINT -> 0x99
    [keyword |-> <<67, 79, 78, 84>>, code |-> 154],   \* CONT -> 0x9A
    [keyword |-> <<76, 73, 83, 84>>, code |-> 155],   \* LIST -> 0x9B
    [keyword |-> <<67, 76, 82>>, code |-> 156],   \* CLR -> 0x9C
    [keyword |-> <<67, 77, 68>>, code |-> 157],   \* CMD -> 0x9D
    [keyword |-> <<83, 89, 83>>, code |-> 158],   \* SYS -> 0x9E
    [keyword |-> <<79, 80, 69, 78>>, code |-> 159],   \* OPEN -> 0x9F
    [keyword |-> <<67, 76, 79, 83, 69>>, code |-> 160],   \* CLOSE -> 0xA0
    [keyword |-> <<71, 69, 84>>, code |-> 161],   \* GET -> 0xA1
    [keyword |-> <<78, 69, 87>>, code |-> 162],   \* NEW -> 0xA2
    [keyword |-> <<84, 65, 66, 40>>, code |-> 163],   \* TAB( -> 0xA3
    [keyword |-> <<84, 79>>, code |-> 164],   \* TO -> 0xA4
    [keyword |-> <<70, 78>>, code |-> 165],   \* FN -> 0xA5
    [keyword |-> <<83, 80, 67, 40>>, code |-> 166],   \* SPC( -> 0xA6
    [keyword |-> <<84, 72, 69, 78>>, code |-> 167],   \* THEN -> 0xA7
    [keyword |-> <<78, 79, 84>>, code |-> 168],   \* NOT -> 0xA8
    [keyword |-> <<83, 84, 69, 80>>, code |-> 169],   \* STEP -> 0xA9
    [keyword |-> <<43>>, code |-> 170],   \* + -> 0xAA
    [keyword |-> <<45>>, code |-> 171],   \* - -> 0xAB
    [keyword |-> <<42>>, code |-> 172],   \* * -> 0xAC
    [keyword |-> <<47>>, code |-> 173],   \* / -> 0xAD
    [keyword |-> <<94>>, code |-> 174],   \* ^ -> 0xAE
    [keyword |-> <<65, 78, 68>>, code |-> 175],   \* AND -> 0xAF
    [keyword |-> <<79, 82>>, code |-> 176],   \* OR -> 0xB0
    [keyword |-> <<62>>, code |-> 177],   \* > -> 0xB1
    [keyword |-> <<61>>, code |-> 178],   \* = -> 0xB2
    [keyword |-> <<60>>, code |-> 179],   \* < -> 0xB3
    [keyword |-> <<83, 71, 78>>, code |-> 180],   \* SGN -> 0xB4
    [keyword |-> <<73, 78, 84>>, code |-> 181],   \* INT -> 0xB5
    [keyword |-> <<65, 66, 83>>, code |-> 182],   \* ABS -> 0xB6
    [keyword |-> <<85, 83, 82>>, code |-> 183],   \* USR -> 0xB7
    [keyword |-> <<70, 82, 69>>, code |-> 184],   \* FRE -> 0xB8
    [keyword |-> <<80, 79, 83>>, code |-> 185],   \* POS -> 0xB9
    [keyword |-> <<83, 81, 82>>, code |-> 186],   \* SQR -> 0xBA
    [keyword |-> <<82, 78, 68>>, code |-> 187],   \* RND -> 0xBB
    [keyword |-> <<76, 79, 71>>, code |-> 188],   \* LOG -> 0xBC
    [keyword |-> <<69, 88, 80>>, code |-> 189],   \* EXP -> 0xBD
    [keyword |-> <<67, 79, 83>>, code |-> 190],   \* COS -> 0xBE
    [keyword |-> <<83, 73, 78>>, code |-> 191],   \* SIN -> 0xBF
    [keyword |-> <<84, 65, 78>>, code |-> 192],   \* TAN -> 0xC0
    [keyword |-> <<65, 84, 78>>, code |-> 193],   \* ATN -> 0xC1
    [keyword |-> <<80, 69, 69, 75>>, code |-> 194],   \* PEEK -> 0xC2
    [keyword |-> <<76, 69, 78>>, code |-> 195],   \* LEN -> 0xC3
    [keyword |-> <<83, 84, 82, 36>>, code |-> 196],   \* STR$ -> 0xC4
    [keyword |-> <<86, 65, 76>>, code |-> 197],   \* VAL -> 0xC5
    [keyword |-> <<65, 83, 67>>, code |-> 198],   \* ASC -> 0xC6
    [keyword |-> <<67, 72, 82, 36>>, code |-> 199],   \* CHR$ -> 0xC7
    [keyword |-> <<76, 69, 70, 84, 36>>, code |-> 200],   \* LEFT$ -> 0xC8
    [keyword |-> <<82, 73, 71, 72, 84, 36>>, code |-> 201],   \* RIGHT$ -> 0xC9
    [keyword |-> <<77, 73, 68, 36>>, code |-> 202]   \* MID$ -> 0xCA
  >>

\* A copy of the table with the codes of INPUT# and INPUT exchanged.
TOKENS_input_exchanged == [BASIC_TOKENS EXCEPT ![5].code = 133, ![6].code = 132]

\* build_and_deploy.py: the keyword table, in the order the dict literal lists its keys.
TOKENS ==
  <<
    [keyword |-> <<69, 78, 68>>, code |-> 128],   \* END -> 0x80
    [keyword |-> <<70, 79, 82>>, code |-> 129],   \* FOR -> 0x81
    [keyword |-> <<78, 69, 88, 84>>, code |-> 130],   \* NEXT -> 0x82
    [keyword |-> <<68, 65, 84, 65>>, code |-> 131],   \* DATA -> 0x83
    [keyword |-> <<73, 78, 80, 85, 84, 35>>, code |-> 132],   \* INPUT# -> 0x84
    [keyword |-> <<73, 78, 80, 85, 84>>, code |-> 133],   \* INPUT -> 0x85
    [keyword |-> <<68, 73, 77>>, code |-> 134],   \* DIM -> 0x86
    [keyword |-> <<82, 69, 65, 68>>, code |-> 135],   \* READ -> 0x87
    [keyword |-> <<76, 69, 84>>, code |-> 136],   \* LET -> 0x88
    [keyword |-> <<71, 79, 84, 79>>, code |-> 137],   \* GOTO -> 0x89
    [keyword |-> <<82, 85, 78>>, code |-> 138],   \* RUN -> 0x8A
    [keyword |-> <<73, 70>>, code |-> 139],   \* IF -> 0x8B
    [keyword |-> <<82, 69, 83, 84, 79, 82, 69>>, code |-> 140],   \* RESTORE -> 0x8C
    [keyword |-> <<71, 79, 83, 85, 66>>, code |-> 141],   \* GOSUB -> 0x8D
    [keyword |-> <<82, 69, 84, 85, 82, 78>>, code |-> 142],   \* RETURN -> 0x8E
    [keyword |-> <<82, 69, 77>>, code |-> 143],   \* REM -> 0x8F
    [keyword |-> <<83, 84, 79, 80>>, code |-> 144],   \* STOP -> 0x90
    [keyword |-> <<79, 78>>, code |-> 145],   \* ON -> 0x91
    [keyword |-> <<87, 65, 73, 84>>, code |-> 146],   \* WAIT -> 0x92
    [keyword |-> <<76, 79, 65, 68>>, code |-> 147],   \* LOAD -> 0x93
    [keyword |-> <<83, 65, 86, 69>>, code |-> 148],   \* SAVE -> 0x94
    [keyword |-> <<86, 69, 82, 73, 70, 89>>, code |-> 149],   \* VERIFY -> 0x95
    [keyword |-> <<68, 69, 70>>, code |-> 150],   \* DEF -> 0x96
    [keyword |-> <<80, 79, 75, 69>>, code |-> 151],   \* POKE -> 0x97
    [keyword |-> <<80, 82, 73, 78, 84, 35>>, code |-> 152],   \* PRINT# -> 0x98
    [keyword |-> <<80, 82, 73, 78, 84>>, code |-> 153],   \* PRINT -> 0x99
    [keyword |-> <<67, 79, 78, 84>>, code |-> 154],   \* CONT -> 0x9A
    [keyword |-> <<76, 73, 83, 84>>, code |-> 155],   \* LIST -> 0x9B
    [keyword |-> <<67, 76, 82>>, code |-> 156],   \* CLR -> 0x9C
    [keyword |-> <<67, 77, 68>>, code |-> 157],   \* CMD -> 0x9D
    [keyword |-> <<83, 89, 83>>, code |-> 158],   \* SYS -> 0x9E
    [keyword |-> <<79, 80, 69, 78>>, code |-> 159],   \* OPEN -> 0x9F
    [keyword |-> <<67, 76, 79, 83, 69>>, code |-> 160],   \* CLOSE -> 0xA0
    [keyword |-> <<71, 69, 84>>, code |-> 161],   \* GET -> 0xA1
    [keyword |-> <<78, 69, 87>>, code |-> 162],   \* NEW -> 0xA2
    [keyword |-> <<84, 65, 66, 40>>, code |-> 163],   \* TAB( -> 0xA3
    [keyword |-> <<84, 79>>, code |-> 164],   \* TO -> 0xA4
    [keyword |-> <<70, 78>>, code |-> 165],   \* FN -> 0xA5
    [keyword |-> <<83, 80, 67, 40>>, code |-> 166],   \* SPC( -> 0xA6
    [keyword |-> <<84, 72, 69, 78>>, code |-> 167],   \* THEN -> 0xA7
    [keyword |-> <<78, 79, 84>>, code |-> 168],   \* NOT -> 0xA8
    [keyword |-> <<83, 84, 69, 80>>, code |-> 169],   \* STEP -> 0xA9
    [keyword |-> <<43>>, code |-> 170],   \* + -> 0xAA
    [keyword |-> <<45>>, code |-> 171],   \* - -> 0xAB
    [keyword |-> <<42>>, code |-> 172],   \* * -> 0xAC
    [keyword |-> <<47>>, code |-> 173],   \* / -> 0xAD
    [keyword |-> <<94>>, code |-> 174],   \* ^ -> 0xAE
    [keyword |-> <<65, 78, 68>>, code |-> 175],   \* AND -> 0xAF
    [keyword |-> <<79, 82>>, code |-> 176],   \* OR -> 0xB0
    [keyword |-> <<62>>, code |-> 177],   \* > -> 0xB1
    [keyword |-> <<61>>, code |-> 178],   \* = -> 0xB2
    [keyword |-> <<60>>, code |-> 179],   \* < -> 0xB3
    [keyword |-> <<83, 71, 78>>, code |-> 180],   \* SGN -> 0xB4
    [keyword |-> <<73, 78, 84>>, code |-> 181],   \* INT -> 0xB5
    [keyword |-> <<65, 66, 83>>, code |-> 182],   \* ABS -> 0xB6
    [keyword |-> <<85, 83, 82>>, code |-> 183],   \* USR -> 0xB7
    [keyword |-> <<70, 82, 69>>, code |-> 184],   \* FRE -> 0xB8
    [keyword |-> <<80, 79, 83>>, code |-> 185],   \* POS -> 0xB9
    [keyword |-> <<83, 81, 82>>, code |-> 186],   \* SQR -> 0xBA
    [keyword |-> <<82, 78, 68>>, code |-> 187],   \* RND -> 0xBB
    [keyword |-> <<76, 79, 71>>, code |-> 188],   \* LOG -> 0xBC
    [keyword |-> <<69, 88, 80>>, code |-> 189],   \* EXP -> 0xBD
    [keyword |-> <<67, 79, 83>>, code |-> 190],   \* COS -> 0xBE
    [keyword |-> <<83, 73, 78>>, code |-> 191],   \* SIN -> 0xBF
    [keyword |-> <<84, 65, 78>>, code |-> 192],   \* TAN -> 0xC0
    [keyword |-> <<65, 84, 78>>, code |-> 193],   \* ATN -> 0xC1
    [keyword |-> <<80, 69, 69, 75>>, code |-> 194],   \* PEEK -> 0xC2
    [keyword |-> <<76, 69, 78>>, code |-> 195],   \* LEN -> 0xC3
    [keyword |-> <<83, 84, 82, 36>>, code |-> 196],   \* STR$ -> 0xC4
    [keyword |-> <<86, 65, 76>>, code |-> 197],   \* VAL -> 0xC5
    [keyword |-> <<65, 83, 67>>, code |-> 198],   \* ASC -> 0xC6
    [keyword |-> <<67, 72, 82, 36>>, code |-> 199],   \* CHR$ -> 0xC7
    [keyword |-> <<76, 69, 70, 84, 36>>, code |-> 200],   \* LEFT$ -> 0xC8
    [keyword |-> <<82, 73, 71, 72, 84, 36>>, code |-> 201],   \* RIGHT$ -> 0xC9
    [keyword |-> <<77, 73, 68, 36>>, code |-> 202]   \* MID$ -> 0xCA
  >>

\* The two scripts; each has its own table, tokenizer and encoder.
BasicTokenizer == "basic_tokenizer"
BuildAndDeploy == "build_and_deploy"
Scripts == {BasicTokenizer, BuildAndDeploy}

\* The value a tokenizer returns for a dropped line.
None == <<>>

\* Spellings the tokenizers name literally.
KW_REM == <<82, 69, 77>>
KW_PRINT_FILE == <<80, 82, 73, 78, 84, 35>>
KW_INPUT_FILE == <<73, 78, 80, 85, 84, 35>>
KW_LOAD == <<76, 79, 65, 68>>
KW_SAVE == <<83, 65, 86, 69>>
KW_VERIFY == <<86, 69, 82, 73, 70, 89>>

\* The characters of the literal '+-*/^>=<'.
OperatorChars == {43, 45, 42, 47, 94, 62, 61, 60}

\* The longest spelling of a table.
MaxKeywordLen(T) ==
  CHOOSE n \in {Len(T[x].keyword) : x \in 1..Len(T)} :
    \A x \in 1..Len(T) : Len(T[x].keyword) <= n

RECURSIVE ByLengthFrom(_, _)
\* The entries of length n, then those of length n - 1, ..., each group in
\* table order.
ByLengthFrom(T, n) ==
  IF n = 0 THEN <<>>
  ELSE SelectSeq(T, LAMBDA e : Len(e.keyword) = n) \o ByLengthFrom(T, n - 1)

\* sorted(T.keys(), key=len, reverse=True): the sort is stable, so entries
\* of equal length keep the table's order.
sorted_keywords(T) == ByLengthFrom(T, MaxKeywordLen(T))

SortedBasicTokens == sorted_keywords(BASIC_TOKENS)
SortedTokens == sorted_keywords(TOKENS)

\* The sorted table a script scans.
SortedTable(s) == IF s = BasicTokenizer THEN SortedBasicTokens ELSE SortedTokens

\* tokenize_basic_line: whether the if/elif chain under a successful
\* startswith accepts this keyword at 0-based position i of content.
basic_keyword_accepted(keyword, content, i) ==
  IF Len(keyword) = 1 /\ keyword[1] \in OperatorChars THEN TRUE
  ELSE IF keyword \in {KW_PRINT_FILE, KW_INPUT_FILE} THEN TRUE
  ELSE IF Len(keyword) > 1
       THEN LET end_pos == i + Len(keyword) IN
              end_pos >= Len(content) \/ ~IsAlnum(content[end_pos + 1])
       ELSE FALSE

\* tokenize_line: whether the if/elif chain under a successful startswith
\* accepts this keyword at 0-based position i of content.
deploy_keyword_accepted(keyword, content, i) ==
  IF Len(keyword) = 1 THEN TRUE
  ELSE IF keyword \in {KW_PRINT_FILE, KW_INPUT_FILE}
       THEN /\ i + Len(keyword) < Len(content)
            /\ IsDigit(content[i + Len(keyword) + 1])
  ELSE IF keyword \in {KW_LOAD, KW_SAVE, KW_VERIFY}
       THEN i = 0 \/ ~IsAlnum(content[i])
  ELSE /\ i = 0 \/ ~IsAlnum(content[i])
       /\ i + Len(keyword) >= Len(content)
            \/ ~IsAlnum(content[i + Len(keyword) + 1])

\* The chain of the script s.
keyword_accepted(s, keyword, content, i) ==
  IF s = BasicTokenizer THEN basic_keyword_accepted(keyword, content, i)
  ELSE deploy_keyword_accepted(keyword, content, i)

\* The for loop over the sorted keywords: the index (in the sorted table) of
\* the first keyword that the rest of the content starts with, upper-cased,
\* and that its chain accepts; 0 when the loop ends with matched = False.
match_keyword(s, content, i) ==
  LET rest == Upper(SliceFrom(content, i))
      S == SortedTable(s)
      hits == {n \in 1..Len(S) :
                 /\ StartsWith(rest, S[n].keyword)
                 /\ keyword_accepted(s, S[n].keyword, content, i)}
  IN IF hits = {} THEN 0
     ELSE CHOOSE n \in hits : \A m \in hits : n <= m

\* One iteration of the while loop of tokenize_basic_line / tokenize_line on
\* the scan state st = [i, in_string, in_rem, tokens], for st.i < Len(content).
\* tokenize_line has no in_rem: it stays FALSE there.
scan_step(s, content, st) ==
  LET char == content[st.i + 1] IN
  IF char = 34
  THEN [st EXCEPT !.in_string = ~st.in_string,
                  !.tokens = Append(st.tokens, 34),
                  !.i = st.i + 1]
  ELSE IF st.in_string \/ st.in_rem
  THEN [st EXCEPT !.tokens = Append(st.tokens, RawCode(char)),
                  !.i = st.i + 1]
  ELSE LET n == match_keyword(s, content, st.i) IN
       IF n # 0
       THEN LET e == SortedTable(s)[n] IN
            [st EXCEPT !.tokens = Append(st.tokens, e.code),
                       !.i = st.i + Len(e.keyword),
                       !.in_rem = (s = BasicTokenizer /\ e.keyword = KW_REM)]
       ELSE [st EXCEPT !.tokens = Append(st.tokens, RawCode(char)),
                       !.i = st.i + 1]

RECURSIVE scan_loop(_, _, _)
\* The while loop run to its end.
scan_loop(s, content, st) ==
  IF st.i < Len(content) THEN scan_loop(s, content, scan_step(s, content, st))
  ELSE st

\* The scan state before the first iteration.
ScanStart == [i |-> 0, in_string |-> FALSE, in_rem |-> FALSE, tokens |-> <<>>]

\* line.strip() and the re.match of the script: None, or <<line_num, content>>.
\* basic_tokenizer matches ^(\d+)\s*(.*)$, build_and_deploy ^(\d+)\s+(.*)$.
\* The lines come from readlines(), so they hold no interior newline and
\* (.*)$ takes all that is left.
split_line(s, raw) ==
  LET line == Strip(raw)
      d == DigitRun(line)
      afterDigits == SubSeq(line, d + 1, Len(line))
      w == SpaceRun(afterDigits)
  IN IF line = <<>> THEN None
     ELSE IF d = 0 THEN None
     ELSE IF s = BuildAndDeploy /\ w = 0 THEN None
     ELSE <<ParseInt(SubSeq(line, 1, d)),
            SubSeq(afterDigits, w + 1, Len(afterDigits))>>

\* tokenize_basic_line(line) / tokenize_line(line): None, or <<line_num, tokens>>.
tokenize(s, raw) ==
  LET m == split_line(s, raw) IN
  IF m = None THEN None
  ELSE <<m[1], scan_loop(s, m[2], ScanStart).tokens>>
\* '10 PRINT "HELLO"'
LinePrintHello == <<49, 48, 32, 80, 82, 73, 78, 84, 32, 34, 72, 69, 76, 76, 79, 34>>
\* '10 GOTO 20'
LineGoto20 == <<49, 48, 32, 71, 79, 84, 79, 32, 50, 48>>
\* '20 END'
LineEnd20 == <<50, 48, 32, 69, 78, 68>>
\* '10 REM PRINT'
LineRemPrint == <<49, 48, 32, 82, 69, 77, 32, 80, 82, 73, 78, 84>>
\* '40 REM "X" GOTO 5'
LineRemQuote == <<52, 48, 32, 82, 69, 77, 32, 34, 88, 34, 32, 71, 79, 84, 79, 32, 53>>
\* '10 XOR'
LineXor == <<49, 48, 32, 88, 79, 82>>
\* '10 LOADER'
LineLoader == <<49, 48, 32, 76, 79, 65, 68, 69, 82>>
\* '10 FOR ORB'
LineForOrb == <<49, 48, 32, 70, 79, 82, 32, 79, 82, 66>>
\* '10 FOR I=1 TO 9'
LineForTo == <<49, 48, 32, 70, 79, 82, 32, 73, 61, 49, 32, 84, 79, 32, 57>>
\* '10 GOTO100'
LineGoto100 == <<49, 48, 32, 71, 79, 84, 79, 49, 48, 48>>
\* '65536 END'
LineBigNumber == <<54, 53, 53, 51, 54, 32, 69, 78, 68>>
\* '10'
LineNumberOnly == <<49, 48>>
\* ''
LineBlank == <<>>
\* '  \n'
LineSpaces == <<32, 32, 10>>
\* 'HELLO'
LineNoNumber == <<72, 69, 76, 76, 79>>
\* '10PRINT'
LineNoSpace == <<49, 48, 80, 82, 73, 78, 84>>
\* '  30 if é<1 then stop \n'
LineLower == <<32, 32, 51, 48, 32, 105, 102, 32, 233, 60, 49, 32, 116, 104, 101, 110, 32, 115, 116, 111, 112, 32, 10>>
\* '10 PRINT#1'
LinePrintFile == <<49, 48, 32, 80, 82, 73, 78, 84, 35, 49>>
\* '10 PRINT#X'
LinePrintFileX == <<49, 48, 32, 80, 82, 73, 78, 84, 35, 88>>
\* '10 INPUT#'
LineInputFile == <<49, 48, 32, 73, 78, 80, 85, 84, 35>>
\* '10 "é REM'
LineOpenQuote == <<49, 48, 32, 34, 233, 32, 82, 69, 77>>
\* '10 A$="OR":STOP'
LineQuoteThenKeyword == <<49, 48, 32, 65, 36, 61, 34, 79, 82, 34, 58, 83, 84, 79, 80>>
\* '10 ABß'
LineSharpS == <<49, 48, 32, 65, 66, 223>>

\* The lines a one-line program is drawn from.
Corpus ==
  {LinePrintHello,
   LineGoto20,
   LineEnd20,
   LineRemPrint,
   LineRemQuote,
   LineXor,
   LineLoader,
   LineForOrb,
   LineForTo,
   LineGoto100,
   LineBigNumber,
   LineNumberOnly,
   LineBlank,
   LineSpaces,
   LineNoNumber,
   LineNoSpace,
   LineLower,
   LinePrintFile,
   LinePrintFileX,
   LineInputFile,
   LineOpenQuote,
   LineQuoteThenKeyword,
   LineSharpS}

\* The lines a longer program is drawn from.
ProgLines == {LineGoto20, LineEnd20, LineNumberOnly, LineBlank, LineNoNumber}

\* The input programs: the results of readlines().
Programs ==
  {<<>>}
  \cup {<<l>> : l \in Corpus}
  \cup UNION {[1..n -> ProgLines] : n \in 2..MaxLines}

\* The default start_addr of both basic_to_prg functions.
DefaultStartAddr == 2049

\* The base addresses tried: the default, one in the middle of memory, and
\* one so close to the top that record addresses pass 0xFFFF.
BaseAddrs == {DefaultStartAddr, 49152, 65525}

VARIABLES
  script,          \* which script's basic_to_prg runs
  start_addr,      \* its start_addr argument
  lines,           \* f.readlines()
  pc,              \* the position in basic_to_prg and in the tokenizer
  k,               \* 1-based index of the line the for loop is at
  line,            \* the argument of the tokenizer call
  line_num,        \* tokenizer: int(match.group(1))
  content,         \* tokenizer: match.group(2)
  i,               \* tokenizer: scan position
  in_string,       \* tokenizer: inside a string literal
  in_rem,          \* tokenize_basic_line: after REM
  tokens,          \* tokenizer: the bytes emitted so far
  result,          \* the tokenizer's return value
  line_data_list,  \* the records: <<address, bytes>> / <<line_num, bytes>>
  prev_line_addr,  \* basic_tokenizer: address of the next record to build
  current_addr,    \* build_and_deploy: address of the record being linked
  j,               \* 0-based index of the link loop and of the final loop
  prg_data,        \* the output buffer (prg in build_and_deploy)
  ret              \* the value basic_to_prg returns

\* The state of play_all_sids (play_all_sids.py).
VARIABLES
  ppc,             \* the position in play_all_sids
  sid_files,       \* parse_sidfiles_txt(content, base_path)
  shuffle,         \* the shuffle argument
  loop,            \* the loop argument
  playlist,        \* the copy of sid_files one pass plays
  song,            \* the 1-based index i of the for loop over the playlist
  quit_requested,  \* a q or Q was read
  skip_song,       \* a space was read during this song
  remaining,       \* the countdown, in steps of 0.1 s
  passes,          \* how many passes over the playlist have begun
  interrupted,     \* a KeyboardInterrupt was raised inside the try block
  api_log          \* the calls made to the device, in order

playerVars ==
  <<ppc, sid_files, shuffle, loop, playlist, song, quit_requested, skip_song,
    remaining, passes, interrupted, api_log>>

\* play_all_sids is not running.
PlayerIdle ==
  /\ ppc = "idle"
  /\ sid_files = <<>>
  /\ shuffle = FALSE
  /\ loop = FALSE
  /\ playlist = <<>>
  /\ song = 0
  /\ quit_requested = FALSE
  /\ skip_song = FALSE
  /\ remaining = 0
  /\ passes = 0
  /\ interrupted = FALSE
  /\ api_log = <<>>

vars ==
  <<script, start_addr, lines, pc, k, line, line_num, content, i, in_string,
    in_rem, tokens, result, line_data_list, prev_line_addr, current_addr, j,
    prg_data, ret, playerVars>>

converterVars ==
  <<script, start_addr, lines, pc, k, line, line_num, content, i, in_string,
    in_rem, tokens, result, line_data_list, prev_line_addr, current_addr, j,
    prg_data, ret>>

tokVars == <<line_num, content, i, in_string, in_rem, tokens>>
inputVars == <<script, start_addr, lines>>
encVars == <<line_data_list, prev_line_addr, current_addr, j, prg_data, ret>>

Init ==
  /\ script \in Scripts
  /\ start_addr \in BaseAddrs
  /\ lines \in Programs
  /\ pc = "start"
  /\ k = 1
  /\ line = <<>>
  /\ line_num = 0
  /\ content = <<>>
  /\ i = 0
  /\ in_string = FALSE
  /\ in_rem = FALSE
  /\ tokens = <<>>
  /\ result = None
  /\ line_data_list = <<>>
  /\ prev_line_addr = 0
  /\ current_addr = 0
  /\ j = 0
  /\ prg_data = <<>>
  /\ ret = 0
  /\ PlayerIdle

\* A link that stops at 0xFFFF instead of wrapping.
link_bytes_saturating(next_addr) ==
  IF next_addr > 65535 THEN <<255, 255>>
  ELSE <<next_addr % 256, next_addr \div 256>>

\* A link written over the line number instead of the link field.
SetLink_at_line_number(data, link) ==
  SubSeq(data, 1, 2) \o link \o SubSeq(data, 5, Len(data))

\* A link written high byte first.
link_bytes_high_first(next_addr) == <<(next_addr \div 256) % 256, next_addr % 256>>

\* current_data[0] = next_addr & 0xFF; current_data[1] = (next_addr >> 8) & 0xFF
link_bytes(next_addr) == <<next_addr % 256, (next_addr \div 256) % 256>>

\* A bytearray with its first two bytes overwritten.
SetLink(data, link) == link \o SubSeq(data, 3, Len(data))

\* A record built without its end marker.
line_data_of_no_end(num, toks) == PackH(0) \o PackH(num) \o toks

\* The bytearray built for one tokenizer result: placeholder link, line
\* number, tokens, end marker.
line_data_of(num, toks) == PackH(0) \o PackH(num) \o toks \o <<0>>

\* An append that replaces the record of a line number already present.
append_record_replacing(list, entry) ==
  LET same == {m \in 1..Len(list) :
                 SubSeq(list[m][2], 3, 4) = SubSeq(entry[2], 3, 4)}
  IN IF same = {} THEN Append(list, entry)
     ELSE [list EXCEPT ![CHOOSE m \in same : TRUE] = entry]

\* line_data_list.append(entry)
append_record(list, entry) == Append(list, entry)

\* ---- basic_tokenizer.basic_to_prg: the line loop ----

basic_begin ==
  /\ pc = "start" /\ script = BasicTokenizer
  /\ prg_data' = PackH(start_addr)
  /\ prev_line_addr' = start_addr + 2
  /\ line_data_list' = <<>>
  /\ k' = 1
  /\ pc' = "for_line"
  /\ UNCHANGED <<playerVars, inputVars, tokVars, line, result, current_addr, j, ret>>

basic_skip_blank ==
  /\ pc = "for_line" /\ script = BasicTokenizer
  /\ k <= Len(lines)
  /\ Strip(RStripNewlines(lines[k])) = <<>>
  /\ k' = k + 1
  /\ UNCHANGED <<playerVars, inputVars, tokVars, pc, line, result, encVars>>

basic_call_tokenize ==
  /\ pc = "for_line" /\ script = BasicTokenizer
  /\ k <= Len(lines)
  /\ Strip(RStripNewlines(lines[k])) # <<>>
  /\ line' = RStripNewlines(lines[k])
  /\ pc' = "call"
  /\ UNCHANGED <<playerVars, inputVars, tokVars, k, result, encVars>>

basic_continue ==
  /\ pc = "returned" /\ script = BasicTokenizer
  /\ result = None
  /\ k' = k + 1
  /\ pc' = "for_line"
  /\ UNCHANGED <<playerVars, inputVars, tokVars, line, result, encVars>>

basic_append_record ==
  /\ pc = "returned" /\ script = BasicTokenizer
  /\ result # None
  /\ ~PackHRaises(result[1])
  /\ LET line_data == line_data_of(result[1], result[2]) IN
       /\ line_data_list' = append_record(line_data_list, <<prev_line_addr, line_data>>)
       /\ prev_line_addr' = prev_line_addr + Len(line_data)
  /\ k' = k + 1
  /\ pc' = "for_line"
  /\ UNCHANGED <<playerVars, inputVars, tokVars, line, result, current_addr, j, prg_data, ret>>

basic_pack_raises ==
  /\ pc = "returned" /\ script = BasicTokenizer
  /\ result # None
  /\ PackHRaises(result[1])
  /\ pc' = "raised"
  /\ UNCHANGED <<playerVars, inputVars, tokVars, k, line, result, encVars>>

basic_loop_end ==
  /\ pc = "for_line" /\ script = BasicTokenizer
  /\ k > Len(lines)
  /\ j' = 0
  /\ pc' = "links"
  /\ UNCHANGED <<playerVars, inputVars, tokVars, k, line, result, line_data_list,
                 prev_line_addr, current_addr, prg_data, ret>>

\* ---- build_and_deploy.basic_to_prg: the line loop ----

deploy_begin ==
  /\ pc = "start" /\ script = BuildAndDeploy
  /\ line_data_list' = <<>>
  /\ k' = 1
  /\ pc' = "for_line"
  /\ UNCHANGED <<playerVars, inputVars, tokVars, line, result, prev_line_addr,
                 current_addr, j, prg_data, ret>>

deploy_call_tokenize ==
  /\ pc = "for_line" /\ script = BuildAndDeploy
  /\ k <= Len(lines)
  /\ line' = lines[k]
  /\ pc' = "call"
  /\ UNCHANGED <<playerVars, inputVars, tokVars, k, result, encVars>>

deploy_continue ==
  /\ pc = "returned" /\ script = BuildAndDeploy
  /\ result = None
  /\ k' = k + 1
  /\ pc' = "for_line"
  /\ UNCHANGED <<playerVars, inputVars, tokVars, line, result, encVars>>

deploy_append_record ==
  /\ pc = "returned" /\ script = BuildAndDeploy
  /\ result # None
  /\ ~PackHRaises(result[1])
  /\ LET line_data == line_data_of(result[1], result[2]) IN
       line_data_list' = append_record(line_data_list, <<result[1], line_data>>)
  /\ k' = k + 1
  /\ pc' = "for_line"
  /\ UNCHANGED <<playerVars, inputVars, tokVars, line, result, prev_line_addr,
                 current_addr, j, prg_data, ret>>

deploy_pack_raises ==
  /\ pc = "returned" /\ script = BuildAndDeploy
  /\ result # None
  /\ PackHRaises(result[1])
  /\ pc' = "raised"
  /\ UNCHANGED <<playerVars, inputVars, tokVars, k, line, result, encVars>>

deploy_loop_end ==
  /\ pc = "for_line" /\ script = BuildAndDeploy
  /\ k > Len(lines)
  /\ current_addr' = start_addr + 2
  /\ j' = 0
  /\ pc' = "links"
  /\ UNCHANGED <<playerVars, inputVars, tokVars, k, line, result, line_data_list,
                 prev_line_addr, prg_data, ret>>

\* ---- tokenize_basic_line / tokenize_line ----

\* The scan state held in the variables.
ScanState ==
  [i |-> i, in_string |-> in_string, in_rem |-> in_rem, tokens |-> tokens]

\* One loop iteration applied to the variables.
ScanIteration ==
  LET st == scan_step(script, content, ScanState) IN
    /\ i' = st.i
    /\ in_string' = st.in_string
    /\ in_rem' = st.in_rem
    /\ tokens' = st.tokens
    /\ UNCHANGED <<playerVars, inputVars, pc, k, line, line_num, content, result, encVars>>

\* The line is blank after strip(), or the regex does not match.
tokenize_reject ==
  /\ pc = "call"
  /\ split_line(script, line) = None
  /\ result' = None
  /\ pc' = "returned"
  /\ UNCHANGED <<playerVars, inputVars, tokVars, k, line, encVars>>

\* The regex matches: the scan starts.
tokenize_enter ==
  /\ pc = "call"
  /\ split_line(script, line) # None
  /\ line_num' = split_line(script, line)[1]
  /\ content' = split_line(script, line)[2]
  /\ tokens' = <<>>
  /\ i' = 0
  /\ in_string' = FALSE
  /\ in_rem' = FALSE
  /\ pc' = "scan"
  /\ UNCHANGED <<playerVars, inputVars, k, line, result, encVars>>

\* if char == '"'
scan_quote ==
  /\ pc = "scan" /\ i < Len(content)
  /\ content[i + 1] = 34
  /\ ScanIteration

\* if in_string or in_rem
scan_raw ==
  /\ pc = "scan" /\ i < Len(content)
  /\ content[i + 1] # 34
  /\ in_string \/ in_rem
  /\ ScanIteration

\* The keyword loop ends with matched = True.
scan_keyword ==
  /\ pc = "scan" /\ i < Len(content)
  /\ content[i + 1] # 34
  /\ ~(in_string \/ in_rem)
  /\ match_keyword(script, content, i) # 0
  /\ ScanIteration

\* if not matched
scan_char ==
  /\ pc = "scan" /\ i < Len(content)
  /\ content[i + 1] # 34
  /\ ~(in_string \/ in_rem)
  /\ match_keyword(script, content, i) = 0
  /\ ScanIteration

\* return (line_num, tokens)
tokenize_return ==
  /\ pc = "scan" /\ i >= Len(content)
  /\ result' = <<line_num, tokens>>
  /\ pc' = "returned"
  /\ UNCHANGED <<playerVars, inputVars, tokVars, k, line, encVars>>

\* ---- basic_tokenizer.basic_to_prg: links and output ----

\* for i in range(len(line_data_list) - 1)
basic_set_link ==
  /\ pc = "links" /\ script = BasicTokenizer
  /\ j < Len(line_data_list) - 1
  /\ LET next_addr == line_data_list[j + 2][1] IN
       line_data_list' =
         [line_data_list EXCEPT
            ![j + 1][2] = SetLink(@, link_bytes(next_addr))]
  /\ j' = j + 1
  /\ UNCHANGED <<playerVars, inputVars, tokVars, pc, k, line, result, prev_line_addr,
                 current_addr, prg_data, ret>>

\* if line_data_list: the last line has link = 0
basic_last_link ==
  /\ pc = "links" /\ script = BasicTokenizer
  /\ j >= Len(line_data_list) - 1
  /\ line_data_list' =
       IF line_data_list # <<>>
       THEN [line_data_list EXCEPT
               ![Len(line_data_list)][2] = SetLink(@, <<0, 0>>)]
       ELSE line_data_list
  /\ j' = 0
  /\ pc' = "extend"
  /\ UNCHANGED <<playerVars, inputVars, tokVars, k, line, result, prev_line_addr,
                 current_addr, prg_data, ret>>

\* for addr, data in line_data_list: prg_data.extend(data)
basic_extend ==
  /\ pc = "extend" /\ script = BasicTokenizer
  /\ j < Len(line_data_list)
  /\ prg_data' = prg_data \o line_data_list[j + 1][2]
  /\ j' = j + 1
  /\ UNCHANGED <<playerVars, inputVars, tokVars, pc, k, line, result, line_data_list,
                 prev_line_addr, current_addr, ret>>

\* The file is written and len(prg_data) returned.
basic_return ==
  /\ pc = "extend" /\ script = BasicTokenizer
  /\ j >= Len(line_data_list)
  /\ ret' = Len(prg_data)
  /\ pc' = "done"
  /\ UNCHANGED <<playerVars, inputVars, tokVars, k, line, result, line_data_list,
                 prev_line_addr, current_addr, j, prg_data>>

\* ---- build_and_deploy.basic_to_prg: links and output ----

\* for i in range(len(line_data_list))
deploy_set_link ==
  /\ pc = "links" /\ script = BuildAndDeploy
  /\ j < Len(line_data_list)
  /\ LET line_data == line_data_list[j + 1][2]
         next_addr == current_addr + Len(line_data)
     IN /\ line_data_list' =
             [line_data_list EXCEPT
                ![j + 1][2] =
                   IF j < Len(line_data_list) - 1
                   THEN SetLink(@, link_bytes(next_addr))
                   ELSE SetLink(@, <<0, 0>>)]
        /\ current_addr' = current_addr + Len(line_data)
  /\ j' = j + 1
  /\ UNCHANGED <<playerVars, inputVars, tokVars, pc, k, line, result, prev_line_addr,
                 prg_data, ret>>

\* prg = bytearray(); prg.extend(struct.pack('<H', start_addr))
deploy_header ==
  /\ pc = "links" /\ script = BuildAndDeploy
  /\ j >= Len(line_data_list)
  /\ prg_data' = PackH(start_addr)
  /\ j' = 0
  /\ pc' = "extend"
  /\ UNCHANGED <<playerVars, inputVars, tokVars, k, line, result, line_data_list,
                 prev_line_addr, current_addr, ret>>

\* for line_num, line_data in line_data_list: prg.extend(line_data)
deploy_extend ==
  /\ pc = "extend" /\ script = BuildAndDeploy
  /\ j < Len(line_data_list)
  /\ prg_data' = prg_data \o line_data_list[j + 1][2]
  /\ j' = j + 1
  /\ UNCHANGED <<playerVars, inputVars, tokVars, pc, k, line, result, line_data_list,
                 prev_line_addr, current_addr, ret>>

\* The file is written and len(prg) returned.
deploy_return ==
  /\ pc = "extend" /\ script = BuildAndDeploy
  /\ j >= Len(line_data_list)
  /\ ret' = Len(prg_data)
  /\ pc' = "done"
  /\ UNCHANGED <<playerVars, inputVars, tokVars, k, line, result, line_data_list,
                 prev_line_addr, current_addr, j, prg_data>>

Next ==
  \/ basic_begin \/ basic_skip_blank \/ basic_call_tokenize
  \/ basic_continue \/ basic_append_record \/ basic_pack_raises
  \/ basic_loop_end
  \/ deploy_begin \/ deploy_call_tokenize \/ deploy_continue
  \/ deploy_append_record \/ deploy_pack_raises \/ deploy_loop_end
  \/ tokenize_reject \/ tokenize_enter
  \/ scan_quote \/ scan_raw \/ scan_keyword \/ scan_char
  \/ tokenize_return
  \/ basic_set_link \/ basic_last_link \/ basic_extend \/ basic_return
  \/ deploy_set_link \/ deploy_header \/ deploy_extend \/ deploy_return

Spec == Init /\ [][Next]_vars

\* ---- play_all_sids.py: play_all_sids from the parsed list on ----
\* The countdown is counted in whole steps of 0.1 s.

\* The most entries a parsed list has.
MaxFiles == 2

\* The longest song, in countdown steps.
MaxTicks == 2

\* The most passes over the playlist a run is followed for.
MaxPasses == 2

\* The paths a parsed list is made of.
SidPaths == {"/USB0/A.SID", "/USB0/B.SID"}

\* The lists parse_sidfiles_txt can return.
SidLists == UNION {[1..n -> SidPaths] : n \in 0..MaxFiles}

\* The characters get_key_press can return.
Keys == {" ", "q", "Q", "x"}

\* key.lower() on those characters.
KeyLower(key) == IF key = "Q" THEN "q" ELSE key

\* The orders random.shuffle can leave a list in.
Shuffles(list) ==
  {p \in [1..Len(list) -> SidPaths] :
     \E f \in [1..Len(list) -> 1..Len(list)] :
       /\ \A a, b \in 1..Len(list) : a # b => f[a] # f[b]
       /\ \A a \in 1..Len(list) : p[a] = list[f[a]]}

\* The request play_sid_file(sid_file, song_number) sends.
PlayCall(sid_file) == <<"play_sid_file", sid_file>>

\* The request reset_machine() sends.
ResetCall == <<"reset_machine">>

\* The request stop_sid() sends.
StopCall == <<"stop_sid">>

\* A for loop that goes on after a quit request.
for_breaks_never(quit) == FALSE

\* if quit_requested: break, at the head of the for loop.
for_breaks(quit) == quit

\* if quit_requested or not loop: break, after the for loop.
while_breaks(quit, lp) == quit \/ ~lp

\* A clean-up that resets the machine whether or not quit was requested.
cleanup_calls_always_reset(quit) == <<ResetCall, StopCall>>

\* The clean-up: reset_machine() if quit_requested, then stop_sid().
cleanup_calls(quit) ==
  IF quit THEN <<ResetCall, StopCall>> ELSE <<StopCall>>

PlayInit ==
  /\ ppc = "parsed"
  /\ sid_files \in SidLists
  /\ shuffle \in BOOLEAN
  /\ loop \in BOOLEAN
  /\ playlist = <<>>
  /\ song = 0
  /\ quit_requested = FALSE
  /\ skip_song = FALSE
  /\ remaining = 0
  /\ passes = 0
  /\ interrupted = FALSE
  /\ api_log = <<>>
  /\ script = BasicTokenizer
  /\ start_addr = DefaultStartAddr
  /\ lines = <<>>
  /\ pc = "idle"
  /\ k = 1
  /\ line = <<>>
  /\ line_num = 0
  /\ content = <<>>
  /\ i = 0
  /\ in_string = FALSE
  /\ in_rem = FALSE
  /\ tokens = <<>>
  /\ result = None
  /\ line_data_list = <<>>
  /\ prev_line_addr = 0
  /\ current_addr = 0
  /\ j = 0
  /\ prg_data = <<>>
  /\ ret = 0

\* if not sid_files: return
play_no_files ==
  /\ ppc = "parsed"
  /\ sid_files = <<>>
  /\ ppc' = "returned"
  /\ UNCHANGED <<converterVars, interrupted, sid_files, shuffle, loop, playlist, song,
                 quit_requested, skip_song, remaining, passes, api_log>>

\* The list is not empty: shuffle it if asked, quit_requested = False.
play_begin ==
  /\ ppc = "parsed"
  /\ sid_files # <<>>
  /\ sid_files' \in (IF shuffle THEN Shuffles(sid_files) ELSE {sid_files})
  /\ quit_requested' = FALSE
  /\ ppc' = "while"
  /\ UNCHANGED <<converterVars, interrupted, shuffle, loop, playlist, song, skip_song,
                 remaining, passes, api_log>>

\* while True: playlist = sid_files.copy(), shuffled if asked; the for loop
\* starts.
play_new_pass ==
  /\ ppc = "while"
  /\ passes < MaxPasses
  /\ playlist' \in (IF shuffle THEN Shuffles(sid_files) ELSE {sid_files})
  /\ song' = 1
  /\ passes' = passes + 1
  /\ ppc' = "for"
  /\ UNCHANGED <<converterVars, interrupted, sid_files, shuffle, loop, quit_requested,
                 skip_song, remaining, api_log>>

\* The for loop reaches an entry with quit_requested set: break.
play_for_break ==
  /\ ppc = "for"
  /\ song <= Len(playlist)
  /\ for_breaks(quit_requested)
  /\ ppc' = "after_for"
  /\ UNCHANGED <<converterVars, interrupted, sid_files, shuffle, loop, playlist, song,
                 quit_requested, skip_song, remaining, passes, api_log>>

\* The for loop has no entry left.
play_for_end ==
  /\ ppc = "for"
  /\ song > Len(playlist)
  /\ ppc' = "after_for"
  /\ UNCHANGED <<converterVars, interrupted, sid_files, shuffle, loop, playlist, song,
                 quit_requested, skip_song, remaining, passes, api_log>>

\* play_sid_file returns True: the countdown of song_duration starts.
play_song_started ==
  /\ ppc = "for"
  /\ song <= Len(playlist)
  /\ ~for_breaks(quit_requested)
  /\ api_log' = Append(api_log, PlayCall(playlist[song]))
  /\ remaining' \in 0..MaxTicks
  /\ skip_song' = FALSE
  /\ ppc' = "countdown"
  /\ UNCHANGED <<converterVars, interrupted, sid_files, shuffle, loop, playlist, song,
                 quit_requested, passes>>

\* play_sid_file returns False: the entry is skipped.
play_song_failed ==
  /\ ppc = "for"
  /\ song <= Len(playlist)
  /\ ~for_breaks(quit_requested)
  /\ api_log' = Append(api_log, PlayCall(playlist[song]))
  /\ song' = song + 1
  /\ UNCHANGED <<converterVars, interrupted, ppc, sid_files, shuffle, loop, playlist,
                 quit_requested, skip_song, remaining, passes>>

\* The guard of the countdown loop.
CountingDown == remaining > 0 /\ ~skip_song /\ ~quit_requested

\* One countdown step in which get_key_press returns None.
countdown_no_key ==
  /\ ppc = "countdown"
  /\ CountingDown
  /\ remaining' = remaining - 1
  /\ UNCHANGED <<converterVars, interrupted, ppc, sid_files, shuffle, loop, playlist, song,
                 quit_requested, skip_song, passes, api_log>>

\* One countdown step in which get_key_press returns ' '.
countdown_space ==
  /\ ppc = "countdown"
  /\ CountingDown
  /\ \E key \in Keys :
       /\ key = " "
       /\ skip_song' = TRUE
  /\ remaining' = remaining - 1
  /\ UNCHANGED <<converterVars, interrupted, ppc, sid_files, shuffle, loop, playlist, song,
                 quit_requested, passes, api_log>>

\* One countdown step in which get_key_press returns q or Q.
countdown_quit ==
  /\ ppc = "countdown"
  /\ CountingDown
  /\ \E key \in Keys :
       /\ key # " "
       /\ KeyLower(key) = "q"
       /\ quit_requested' = TRUE
  /\ remaining' = remaining - 1
  /\ UNCHANGED <<converterVars, interrupted, ppc, sid_files, shuffle, loop, playlist, song,
                 skip_song, passes, api_log>>

\* One countdown step in which get_key_press returns any other character.
countdown_other_key ==
  /\ ppc = "countdown"
  /\ CountingDown
  /\ \E key \in Keys :
       /\ key # " "
       /\ KeyLower(key) # "q"
  /\ remaining' = remaining - 1
  /\ UNCHANGED <<converterVars, interrupted, ppc, sid_files, shuffle, loop, playlist, song,
                 quit_requested, skip_song, passes, api_log>>

\* The countdown loop ends; the for loop goes to the next entry.
countdown_end ==
  /\ ppc = "countdown"
  /\ ~CountingDown
  /\ song' = song + 1
  /\ ppc' = "for"
  /\ UNCHANGED <<converterVars, interrupted, sid_files, shuffle, loop, playlist,
                 quit_requested, skip_song, remaining, passes, api_log>>

\* if quit_requested or not loop: break
play_break ==
  /\ ppc = "after_for"
  /\ while_breaks(quit_requested, loop)
  /\ ppc' = "cleanup"
  /\ UNCHANGED <<converterVars, interrupted, sid_files, shuffle, loop, playlist, song,
                 quit_requested, skip_song, remaining, passes, api_log>>

\* Restarting playlist...
play_restart ==
  /\ ppc = "after_for"
  /\ ~while_breaks(quit_requested, loop)
  /\ ppc' = "while"
  /\ UNCHANGED <<converterVars, interrupted, sid_files, shuffle, loop, playlist, song,
                 quit_requested, skip_song, remaining, passes, api_log>>

\* if quit_requested: reset_machine(); stop_sid()
play_cleanup ==
  /\ ppc = "cleanup"
  /\ api_log' = api_log \o cleanup_calls(quit_requested)
  /\ ppc' = "finished"
  /\ UNCHANGED <<converterVars, interrupted, sid_files, shuffle, loop, playlist, song,
                 quit_requested, skip_song, remaining, passes>>

\* except KeyboardInterrupt: an interrupt raised anywhere inside the try block
\* leaves the loops and goes to the clean-up.
play_interrupted ==
  /\ ppc \in {"while", "for", "countdown", "after_for"}
  /\ interrupted' = TRUE
  /\ ppc' = "cleanup"
  /\ UNCHANGED <<converterVars, sid_files, shuffle, loop, playlist, song,
                 quit_requested, skip_song, remaining, passes, api_log>>

PlayNext ==
  \/ play_no_files \/ play_begin \/ play_new_pass
  \/ play_for_break \/ play_for_end
  \/ play_song_started \/ play_song_failed
  \/ countdown_no_key \/ countdown_space \/ countdown_quit
  \/ countdown_other_key \/ countdown_end
  \/ play_break \/ play_restart \/ play_interrupted \/ play_cleanup

PlaySpec == PlayInit /\ [][PlayNext]_vars

\* The interpreter keeps running the function: sleeps end and every request to
\* the device has a timeout, so a step that can be taken is taken.
PlayFairSpec == PlaySpec /\ WF_vars(PlayNext)

\* ---- The two record encoders as functions of the tokenizer results ----

RECURSIVE Flatten(_)
\* bytearray.extend over a list of bytearrays.
Flatten(datas) ==
  IF datas = <<>> THEN <<>> ELSE Head(datas) \o Flatten(Tail(datas))

RECURSIVE basic_build(_, _)
\* basic_tokenizer: the list of <<address, line_data>> the line loop builds
\* from the tokenizer results, the first record at prev_line_addr.
basic_build(pairs, addr) ==
  IF pairs = <<>> THEN <<>>
  ELSE LET line_data == line_data_of(Head(pairs)[1], Head(pairs)[2]) IN
       <<<<addr, line_data>>>> \o basic_build(Tail(pairs), addr + Len(line_data))

\* basic_tokenizer: the link loop and the last-line assignment; each link is
\* the recorded address of the next entry.
basic_link_pass(list) ==
  [n \in 1..Len(list) |->
     IF n < Len(list)
     THEN <<list[n][1], SetLink(list[n][2], link_bytes(list[n + 1][1]))>>
     ELSE <<list[n][1], SetLink(list[n][2], <<0, 0>>)>>]

\* basic_tokenizer.basic_to_prg from the tokenizer results to the buffer.
basic_encode(pairs, base) ==
  LET list == basic_link_pass(basic_build(pairs, base + 2)) IN
    PackH(base) \o Flatten([n \in 1..Len(list) |-> list[n][2]])

\* build_and_deploy: the list of <<line_num, line_data>> the line loop builds.
deploy_build(pairs) ==
  [n \in 1..Len(pairs) |->
     <<pairs[n][1], line_data_of(pairs[n][1], pairs[n][2])>>]

RECURSIVE deploy_link_pass_own_address(_, _, _)
\* A link loop that writes the record's own address as its link.
deploy_link_pass_own_address(list, n, addr) ==
  IF n > Len(list) THEN list
  ELSE LET line_data == list[n][2]
           linked == IF n < Len(list)
                     THEN SetLink(line_data, link_bytes(addr))
                     ELSE SetLink(line_data, <<0, 0>>)
       IN deploy_link_pass_own_address([list EXCEPT ![n][2] = linked], n + 1,
                                       addr + Len(line_data))

RECURSIVE deploy_link_pass(_, _, _)
\* build_and_deploy: the link loop from its iteration n (1-based) on, with
\* current_addr = addr; each link is the running address plus the record's
\* own length.
deploy_link_pass(list, n, addr) ==
  IF n > Len(list) THEN list
  ELSE LET line_data == list[n][2]
           next_addr == addr + Len(line_data)
           linked == IF n < Len(list)
                     THEN SetLink(line_data, link_bytes(next_addr))
                     ELSE SetLink(line_data, <<0, 0>>)
       IN deploy_link_pass([list EXCEPT ![n][2] = linked], n + 1,
                           addr + Len(line_data))

\* build_and_deploy.basic_to_prg from the tokenizer results to the buffer.
deploy_encode(pairs, base) ==
  LET list == deploy_link_pass(deploy_build(pairs), 1, base + 2) IN
    PackH(base) \o Flatten([n \in 1..Len(list) |-> list[n][2]])

\* ---- What the claims speak of ----

\* A 16-bit value as two bytes, low byte first.
LowByteFirst(n) == <<n % 256, n \div 256>>

RECURSIVE AcceptedOf(_, _)
\* The tokenizer results of the accepted lines of ls, in input order: the
\* lines for which the script's tokenizer returns a pair.
AcceptedOf(s, ls) ==
  IF ls = <<>> THEN <<>>
  ELSE LET r == tokenize(s, Head(ls)) IN
       (IF r = None THEN <<>> ELSE <<r>>) \o AcceptedOf(s, Tail(ls))

\* The accepted lines of this run.
Accepted == AcceptedOf(script, lines)

\* The byte length of the record of a tokenizer result.
RecordLen(r) == 5 + Len(r[2])

RECURSIVE LenOfFirst(_, _)
\* The total byte length of the first n records.
LenOfFirst(rs, n) ==
  IF n = 0 THEN 0 ELSE LenOfFirst(rs, n - 1) + RecordLen(rs[n])

\* The 0-based offset in the buffer at which record n (1-based) begins.
RecordOffset(rs, n) == 2 + LenOfFirst(rs, n - 1)

\* The value of the two bytes at a 0-based offset of the buffer, low byte first.
WordAt(off) == prg_data[off + 1] + 256 * prg_data[off + 2]

\* The link field of record n as the buffer holds it.
LinkOf(n) == WordAt(RecordOffset(Accepted, n))

\* basic_to_prg has returned a buffer.
Returned == pc = "done"

\* C1 (as amended): in a returned buffer with at least one record, the link
\* field of every record but the last is base_address + 2 + the total length
\* of the records up to and including it, taken modulo 2^16, and the link
\* field of the last record is 0; for `10 GOTO 20`, `20 END` at 0x0801 the
\* first link is 0x080C, where the second record begins, and the second is 0.
C1_LinksModulo ==
  Returned /\ Accepted # <<>> =>
    /\ \A n \in 1..Len(Accepted) :
         LinkOf(n) =
           IF n = Len(Accepted) THEN 0
           ELSE (start_addr + 2 + LenOfFirst(Accepted, n)) % 65536
    /\ lines = <<LineGoto20, LineEnd20>> /\ start_addr = 2049 =>
         LinkOf(1) = 2060 /\ LinkOf(2) = 0

\* C1 witness: a buffer of three records whose addresses pass 0xFFFF.
C1_Witness ==
  /\ Returned
  /\ Len(Accepted) = 3
  /\ start_addr + 2 + LenOfFirst(Accepted, 2) > 65535
  /\ LinkOf(2) # 0

\* C1 (as claimed): every link but the last equals base_address + 2 + the
\* total length of the records up to and including it, and the last is 0.
C1_LinksExact ==
  Returned /\ Accepted # <<>> =>
    \A n \in 1..Len(Accepted) :
      LinkOf(n) =
        IF n = Len(Accepted) THEN 0
        ELSE start_addr + 2 + LenOfFirst(Accepted, n)

\* C2 (as amended): `10 PRINT "HELLO"` at 0x0801 yields the load address
\* 01 08, then one record with link 0, line number 0A 00, the bytes
\* 99 20 22 'H' 'E' 'L' 'L' 'O' 22 (the space after PRINT is kept) and the
\* zero terminator.
C2_HelloWithSpace ==
  Returned /\ lines = <<LinePrintHello>> /\ start_addr = 2049 =>
    prg_data = <<1, 8, 0, 0, 10, 0, 153, 32, 34, 72, 69, 76, 76, 79, 34, 0>>

\* C2 witness: the conversion of that line at 0x0801 has returned.
C2_Witness ==
  Returned /\ lines = <<LinePrintHello>> /\ start_addr = 2049 /\ ret = 16

\* C2 (as claimed): the tokenized bytes are exactly 99 22 'H' 'E' 'L' 'L' 'O' 22.
C2_HelloNoSpace ==
  Returned /\ lines = <<LinePrintHello>> /\ start_addr = 2049 =>
    prg_data = <<1, 8, 0, 0, 10, 0, 153, 34, 72, 69, 76, 76, 79, 34, 0>>

\* C3: once the REM code 0x8F has been emitted, no keyword or operator code
\* follows it on that line, and when the tokenizer returns, the bytes after
\* the REM code are the raw codes ('?' from 128 up) of the characters after
\* the REM spelling, one byte per character.
C3_RemVerbatim ==
  pc \in {"scan", "returned"} =>
    \A p \in 1..Len(tokens) :
      tokens[p] = 143 /\ (\A q \in 1..(p - 1) : tokens[q] # 143) =>
        /\ \A q \in (p + 1)..Len(tokens) : tokens[q] < 128
        /\ pc = "returned" /\ result # None =>
             LET m == Len(tokens) - p IN
               /\ m <= Len(content)
               /\ \A q \in 1..m :
                    tokens[p + q] = RawCode(content[Len(content) - m + q])

\* The codes of the ordinary multi-character keywords: every table entry but
\* the one-character operators and PRINT#, INPUT#.
OrdinaryCodes ==
  {BASIC_TOKENS[x].code : x \in {y \in 1..Len(BASIC_TOKENS) :
     /\ Len(BASIC_TOKENS[y].keyword) > 1
     /\ BASIC_TOKENS[y].keyword \notin {KW_PRINT_FILE, KW_INPUT_FILE}}}

\* C4: a scan step emits the code of an ordinary keyword at position i only
\* if the character before i is absent or not alphanumeric and the character
\* after the matched span is absent or not alphanumeric.
C4_WordBoundary ==
  [][ (/\ pc = "scan" /\ pc' = "scan"
       /\ Len(tokens') = Len(tokens) + 1
       /\ tokens'[Len(tokens')] \in OrdinaryCodes)
      => /\ i = 0 \/ ~IsAlnum(content[i])
         /\ i' >= Len(content) \/ ~IsAlnum(content[i' + 1]) ]_vars

\* C5: the content GOTO100 is tokenized as the GOTO code 0x89 followed by
\* the raw codes of 1, 0, 0.
C5_GotoDigits ==
  pc = "returned" /\ result # None /\ content = <<71, 79, 84, 79, 49, 48, 48>> =>
    result[2] = <<137, 49, 48, 48>>

\* C6: no input makes the tokenize-and-encode steps raise an error.
C6_NeverRaises == pc # "raised"

\* The numeric prefix of a stripped line is followed by nothing but blanks.
EmptyContent(l) ==
  LET s == Strip(l) IN
    DigitRun(s) > 0 /\ Strip(SubSeq(s, DigitRun(s) + 1, Len(s))) = <<>>

\* C7: the tokenizer returns None exactly for a blank line, a line without
\* leading decimal digits, or a line whose content after the numeric prefix
\* is empty.
C7_DroppedExactly ==
  pc = "returned" =>
    (result = None <=>
       \/ Strip(line) = <<>>
       \/ DigitRun(Strip(line)) = 0
       \/ EmptyContent(line))

RECURSIVE RecordsFrom(_, _)
\* The records n.. of the accepted lines laid out one after the other, each
\* with the link bytes the buffer holds at its place.
RecordsFrom(rs, n) ==
  IF n > Len(rs) THEN <<>>
  ELSE <<prg_data[RecordOffset(rs, n) + 1], prg_data[RecordOffset(rs, n) + 2]>>
       \o LowByteFirst(rs[n][1]) \o rs[n][2] \o <<0>>
       \o RecordsFrom(rs, n + 1)

\* C8: the returned buffer is the base address, low byte first, followed by
\* the records in order and nothing else, each record being two link bytes,
\* the line number low byte first, the tokenized bytes and a zero byte; the
\* returned length is 2 + the sum over the records of 5 + number of tokens.
C8_BufferLayout ==
  Returned =>
    /\ Len(prg_data) = 2 + LenOfFirst(Accepted, Len(Accepted))
    /\ prg_data = LowByteFirst(start_addr) \o RecordsFrom(Accepted, 1)
    /\ ret = 2 + LenOfFirst(Accepted, Len(Accepted))

\* C8 witness: a returned buffer of two or more records, one with tokens.
C8_Witness ==
  /\ Returned
  /\ Len(Accepted) >= 2
  /\ \E n \in 1..Len(Accepted) : Accepted[n][2] # <<>>
  /\ ret > 12

\* C9: with the bytes after the header placed at the load address the header
\* holds, every link but the last is the address of the following record.
C9_LinksMatchLoadAddress ==
  Returned =>
    \A n \in 1..(Len(Accepted) - 1) :
      LinkOf(n) = (WordAt(0) + RecordOffset(Accepted, n + 1) - 2) % 65536

\* C10: the k-th record of the returned buffer carries the line number and
\* the tokens of the k-th accepted line, in input order: nothing is sorted
\* and lines with the same number each keep their own record.
C10_InputOrder ==
  Returned =>
    /\ Len(line_data_list) = Len(Accepted)
    /\ \A n \in 1..Len(Accepted) :
         LET off == RecordOffset(Accepted, n) IN
           /\ off + RecordLen(Accepted[n]) <= Len(prg_data)
           /\ WordAt(off + 2) = Accepted[n][1]
           /\ SubSeq(prg_data, off + 5, off + RecordLen(Accepted[n]) - 1)
                = Accepted[n][2]

\* C10 witness: a returned buffer in which a later record has a smaller line
\* number than an earlier one and two records have the same line number.
C10_Witness ==
  /\ Returned
  /\ \E a, b \in 1..Len(Accepted) : a < b /\ Accepted[a][1] > Accepted[b][1]
  /\ \E a, b \in 1..Len(Accepted) : a < b /\ Accepted[a][1] = Accepted[b][1]
  /\ Len(line_data_list) = Len(Accepted)

\* C11: in a scan step a double quote flips in_string and is emitted as
\* 0x22; while in_string is set any other character leaves the flag set and
\* emits exactly one byte, its code if below 128 and 0x3F otherwise, so no
\* keyword code comes from quoted text; after the closing quote keywords are
\* matched again (STOP in `A$="OR":STOP` is emitted as 0x90).
C11_QuotedText ==
  [][ (pc = "scan" /\ tokens' # tokens) =>
        LET char == content[i + 1] IN
          /\ char = 34 =>
               /\ in_string' = ~in_string
               /\ tokens' = Append(tokens, 34)
               /\ i' = i + 1
          /\ char # 34 /\ in_string =>
               /\ in_string'
               /\ tokens' = Append(tokens, IF char < 128 THEN char ELSE 63)
               /\ i' = i + 1
          /\ content = <<65, 36, 61, 34, 79, 82, 34, 58, 83, 84, 79, 80>> /\ i = 8 =>
               tokens' = Append(tokens, 144) /\ ~in_string ]_vars

\* C11 witness: the scan is inside a quoted span and has just emitted '?'
\* for a character from 128 up.
C11_Witness ==
  /\ pc = "scan"
  /\ in_string
  /\ i >= 2
  /\ content[i] >= 128
  /\ tokens[Len(tokens)] = 63

\* C12: outside quoted and verbatim mode, text that spells PRINT# or INPUT#
\* in any letter case is emitted as the single code 0x98 or 0x84 whatever
\* follows it, and the bytes never hold the PRINT or INPUT code followed by
\* a raw '#'.
C12_FileKeywords ==
  [][ (pc = "scan" /\ tokens' # tokens) =>
        /\ (content[i + 1] # 34 /\ ~in_string /\ ~in_rem) =>
             LET rest == Upper(SliceFrom(content, i)) IN
               /\ StartsWith(rest, <<80, 82, 73, 78, 84, 35>>) =>
                    tokens' = Append(tokens, 152) /\ i' = i + 6
               /\ StartsWith(rest, <<73, 78, 80, 85, 84, 35>>) =>
                    tokens' = Append(tokens, 132) /\ i' = i + 6
        /\ \A p \in 1..(Len(tokens') - 1) :
             tokens'[p] \in {153, 133} => tokens'[p + 1] # 35 ]_vars

\* C13: when the address of the record after a non-final record passes
\* 0xFFFF the buffer is still returned, and that record's link bytes are the
\* address modulo 256 and the address divided by 256, modulo 256.
C13_WrappedLink ==
  Returned =>
    \A n \in 1..(Len(Accepted) - 1) :
      LET addr == start_addr + 2 + LenOfFirst(Accepted, n)
          off == RecordOffset(Accepted, n)
      IN addr > 65535 =>
           /\ prg_data[off + 1] = addr % 256
           /\ prg_data[off + 2] = (addr \div 256) % 256

\* C13 witness: a buffer was returned although the address of its second
\* record passes 0xFFFF.
C13_Witness ==
  /\ Returned
  /\ Len(Accepted) >= 2
  /\ start_addr + 2 + LenOfFirst(Accepted, 1) > 65535
  /\ ret = Len(prg_data)

\* The byte at a 16-bit address when the whole buffer, header included, lies
\* in memory from base_address on; 0 where the buffer does not reach.
MemAt(a) ==
  LET off == (a - start_addr) % 65536 IN
    IF off < Len(prg_data) THEN prg_data[off + 1] ELSE 0

RECURSIVE BytesToZero(_, _)
\* The bytes from address a up to the first zero byte, at most fuel of them.
BytesToZero(a, fuel) ==
  IF fuel = 0 \/ MemAt(a % 65536) = 0 THEN <<>>
  ELSE <<MemAt(a % 65536)>> \o BytesToZero(a + 1, fuel - 1)

RECURSIVE Walk(_, _)
\* What a consumer reads that starts at address a, reads a record, follows
\* its link and stops at a zero link: the <<line number, bytes>> pairs, at
\* most fuel of them.
Walk(a, fuel) ==
  IF fuel = 0 THEN <<>>
  ELSE LET link == MemAt(a % 65536) + 256 * MemAt((a + 1) % 65536)
           num == MemAt((a + 2) % 65536) + 256 * MemAt((a + 3) % 65536)
       IN <<<<num, BytesToZero(a + 4, Len(prg_data))>>>>
          \o (IF link = 0 THEN <<>> ELSE Walk(link, fuel - 1))

\* C14: for a returned buffer with records, loaded at base_address, the
\* consumer that starts at base_address + 2 and follows the links reads the
\* accepted lines, each once and in input order, and stops at the last; no
\* record but the last has link 0 and every other link is the address at
\* which the next record begins.
C14_ChainWalk ==
  Returned /\ Accepted # <<>> =>
    /\ Walk(start_addr + 2, Len(Accepted) + 1) = Accepted
    /\ \A n \in 1..(Len(Accepted) - 1) :
         /\ LinkOf(n) # 0
         /\ LinkOf(n) = (start_addr + RecordOffset(Accepted, n + 1)) % 65536

\* C15: a scan step moves the scan position forward by at least one, never
\* past the end of the content, and emits exactly one byte; so the loop ends
\* with the position at the end of the content after at most Len(content)
\* steps, having emitted between 1 and Len(content) bytes for non-empty
\* content.
C15_ScanAdvances ==
  [][ /\ (pc = "scan" /\ tokens' # tokens) =>
           /\ i' >= i + 1
           /\ i' <= Len(content)
           /\ Len(tokens') = Len(tokens) + 1
           /\ Len(tokens') <= i'
      /\ (pc = "scan" /\ pc' = "returned") =>
           /\ i = Len(content)
           /\ Len(tokens) <= Len(content)
           /\ content # <<>> => Len(tokens) >= 1 ]_vars

\* C15 witness: a scan has ended in which a keyword step moved the position
\* by more than one character.
C15_Witness ==
  /\ pc = "returned"
  /\ result # None
  /\ i = Len(content)
  /\ Len(tokens) >= 2
  /\ Len(tokens) < Len(content)

\* The <<spelling, code>> pairs of a table.
PairsOf(T) == {<<T[x].keyword, T[x].code>> : x \in 1..Len(T)}

\* A table maps its spellings one-to-one onto exactly the codes 0x80..0xCA,
\* and the eight operator symbols are spellings with codes in 0xAA..0xB3.
TableOk(T) ==
  /\ {T[x].code : x \in 1..Len(T)} = 128..202
  /\ \A x, y \in 1..Len(T) :
       x # y => T[x].code # T[y].code /\ T[x].keyword # T[y].keyword
  /\ \A c \in {43, 45, 42, 47, 94, 62, 61, 60} :
       \E x \in 1..Len(T) : T[x].keyword = <<c>> /\ T[x].code \in 170..179

BasicTableOk == TableOk(BASIC_TOKENS)

DeployTableOk == TableOk(TOKENS)

SameMapping == PairsOf(BASIC_TOKENS) = PairsOf(TOKENS)

\* C16: the table of the script that runs, BASIC_TOKENS or TOKENS, maps its
\* spellings one-to-one onto exactly the codes 0x80..0xCA, the eight operator
\* symbols + - * / ^ > = < are spellings with codes in 0xAA..0xB3, and
\* BASIC_TOKENS and TOKENS are the same mapping.
C16_KeywordTable ==
  /\ IF script = BasicTokenizer THEN BasicTableOk ELSE DeployTableOk
  /\ SameMapping

\* C16 witness: a tokenizer has returned bytes in which the table gave the
\* code 0xA4 for TO and the code 0xB2 for the operator =.
C16_Witness ==
  /\ pc = "returned"
  /\ result # None
  /\ \E p \in 1..Len(content) : content[p] = 61
  /\ \E p, q \in 1..Len(tokens) : tokens[p] = 178 /\ tokens[q] = 164

\* C19: on the same tokenizer results and base address the encoder of
\* basic_tokenizer.py and the encoder of build_and_deploy.py give the same
\* bytes, which are the bytes the running script returns; this covers no
\* record and one record.
C19_EncodersAgree ==
  Returned =>
    /\ basic_encode(Accepted, start_addr) = deploy_encode(Accepted, start_addr)
    /\ script = BasicTokenizer => prg_data = deploy_encode(Accepted, start_addr)
    /\ script = BuildAndDeploy => prg_data = basic_encode(Accepted, start_addr)

\* C19 witness: basic_tokenizer has returned a buffer of three records, one
\* of them without tokens, that the other encoder would also return.
C19_Witness ==
  /\ Returned
  /\ script = BasicTokenizer
  /\ Len(Accepted) = 3
  /\ \E n \in 1..2 : Accepted[n][2] = <<>>
  /\ prg_data = deploy_encode(Accepted, start_addr)

\* C20: a step of the link pass leaves the number and order of the records,
\* each record's length and each record's bytes from offset 2 on (line
\* number, tokens, terminator) as they were; only bytes 0 and 1 may change.
C20_LinkPassFrame ==
  [][ pc = "links" =>
        /\ Len(line_data_list') = Len(line_data_list)
        /\ \A n \in 1..Len(line_data_list) :
             LET old == line_data_list[n][2]
                 new == line_data_list'[n][2]
             IN /\ line_data_list'[n][1] = line_data_list[n][1]
                /\ Len(new) = Len(old)
                /\ SubSeq(new, 3, Len(new)) = SubSeq(old, 3, Len(old))
                /\ SubSeq(old, 3, 4) = LowByteFirst(Accepted[n][1])
                /\ SubSeq(old, 5, Len(old) - 1) = Accepted[n][2] ]_vars

\* C20 witness: the link pass is over for two or more records and has set
\* the first link away from its placeholder.
C20_Witness ==
  /\ pc = "extend"
  /\ Len(line_data_list) >= 2
  /\ SubSeq(line_data_list[1][2], 1, 2) # <<0, 0>>

\* ---- play_all_sids ----

\* How many times reset_machine was called.
ResetCount == Cardinality({n \in DOMAIN api_log : api_log[n] = ResetCall})

\* One play_sid_file call for each playlist entry, in playlist order.
OnePlayEach == [n \in 1..Len(playlist) |-> <<"play_sid_file", playlist[n]>>]

\* C17: once a q or Q has been read, the request stays set and no call is made
\* to the device except the clean-up's, which is reset_machine followed by
\* stop_sid; a run that finishes after a quit has called reset_machine exactly
\* once; and after a quit the run does finish.  This holds with loop enabled
\* and with playlist entries not yet played.
C17_QuitResets ==
  /\ [][quit_requested =>
          /\ quit_requested'
          /\ \/ api_log' = api_log
             \/ /\ ppc = "cleanup"
                /\ ppc' = "finished"
                /\ api_log' = api_log \o <<ResetCall, StopCall>>]_vars
  /\ [](ppc = "finished" /\ quit_requested => ResetCount = 1)
  /\ (quit_requested ~> ppc = "finished")

\* A looping run has finished after a quit read during the first song: the for
\* loop broke at the second entry, which was never played.
C17_Witness ==
  /\ ppc = "finished"
  /\ quit_requested
  /\ loop
  /\ ~interrupted
  /\ song <= Len(playlist)
  /\ Len(api_log) = 3
  /\ ResetCount = 1

\* C18: absent a quit request and an interrupt, a run with loop disabled
\* finishes having called play_sid_file once for each playlist entry in
\* playlist order and then stop_sid, and nothing else; a space changes only
\* skip_song and the countdown; and a run with loop enabled never reaches the
\* clean-up: after the last entry it goes back to the head of the while loop
\* and the next pass starts at the first entry.
C18_PlaysEachOnce ==
  [][/\ (ppc' = "finished" /\ ~loop /\ ~quit_requested /\ ~interrupted)
          => api_log' = OnePlayEach \o <<StopCall>>
     /\ (skip_song' /\ ~skip_song /\ ppc = "countdown")
          => /\ api_log' = api_log
             /\ song' = song
             /\ ppc' = ppc
             /\ quit_requested' = quit_requested
     /\ (loop /\ ~quit_requested' /\ ~interrupted')
          => /\ ppc' \notin {"cleanup", "finished"}
             /\ ppc = "after_for" => ppc' = "while"
             /\ ppc = "while" => (ppc' = "for" /\ song' = 1)]_vars

\* A run without loop has finished, no quit and no interrupt, over two entries,
\* the last one skipped with a space.
C18_Witness ==
  /\ ppc = "finished"
  /\ ~loop
  /\ ~quit_requested
  /\ ~interrupted
  /\ Len(playlist) = 2
  /\ skip_song
  /\ api_log = OnePlayEach \o <<StopCall>>

====
